---- MODULE Spec2Model ----
(***************************************************************************)
(* exchange_rate_tracker (programs/fiat-crypto-tracker/src/lib.rs).        *)
(*                                                                         *)
(* One RateData account (a PDA with the fixed seed "rate_data") holds the  *)
(* authority and the list of oracles.  Five instructions act on it:        *)
(* initialize, add_oracle, update_rate, delegate and undelegate.  An       *)
(* instruction is one transaction: account validation (the #[derive(       *)
(* Accounts)] structs), then the handler, then the write-back of the       *)
(* account; a transaction that fails anywhere leaves every account as it   *)
(* was.  Transactions are processed either by the base ledger or by the    *)
(* ephemeral rollup (ER), which is why every call carries a venue.         *)
(***************************************************************************)
EXTENDS Integers, Sequences, FiniteSets, TLC

\* ---------------------------------------------------------------- inputs
\* Signers seen by the program.
Keys == {"K1", "K2", "K3"}

\* The value of a Pubkey field of an account that was never written.
NoKey == "none"

\* Display names given to add_oracle; every one is NameLen bytes long.
Names == {"BankA", "MarketB"}

NameLen == 400

\* The (name, pubkey) pairs add_oracle is called with: every key can be
\* registered, K1 under either name.
Registrations ==
    { <<"BankA", "K1">>, <<"MarketB", "K1">>, <<"MarketB", "K2">>, <<"BankA", "K3">> }

\* new_rate arguments of update_rate (u64, never computed with).
Rates == {1450}

\* Clock::get()?.unix_timestamp runs over 1..MaxClock.
MaxClock == 2

Venues == {"base", "er"}

\* ----------------------------------------------------------------- state
VARIABLES
    created,       \* the rate_data PDA exists (Initialize's `init` has run)
    rate_data,     \* its content: [authority, oracles]
    location,      \* who owns the PDA: "BASE" (this program) or "DELEGATED"
    clock,         \* the Clock sysvar's unix_timestamp
    last,          \* the transaction of the last step (NoCall after a Tick):
                   \* call, outcome and state before it
    pre_delegate,  \* <<content at the last successful delegate>> while no
                   \* add_oracle/update_rate has succeeded since, else <<>>
    adds,          \* the run of add_oracle calls made since initialize
    ledger,        \* what the accepted calls said: the (name, pubkey) of every
                   \* accepted add_oracle in order, and per pubkey the rate
                   \* and timestamp of its last accepted update_rate
    lock,          \* the runtime's write lock on the PDA: "free" or its holder
    upd,           \* an update_rate transaction in flight at the base venue
    dlg            \* a delegate transaction in flight at the base venue

\* The transactions in flight are used by SpecRace only; under Spec every
\* transaction is one step and these three stay as Init sets them.
inflight == <<lock, upd, dlg>>

vars == <<created, rate_data, location, clock, last, pre_delegate, adds, ledger,
          lock, upd, dlg>>

\* ------------------------------------------------------------ data types
\* struct Oracle as add_oracle builds it.
Oracle(name, pubkey) ==
    [name |-> name, pubkey |-> pubkey, rate |-> 0, last_updated |-> 0]

\* struct RateData; `empty` is the account's content before initialize.
RateData(authority, oracles) == [authority |-> authority, oracles |-> oracles]

EmptyData == RateData(NoKey, <<>>)

\* The outcome of a handler or of a whole transaction.
Out(err, rd, loc) == [err |-> err, rate_data |-> rd, location |-> loc]

\* --------------------------------------------------------- account space
\* space = 8 + 32 + 1024 reserved by Initialize; never reallocated.
Space == 8 + 32 + 1024

NameBytes(name) == NameLen

\* Borsh: String = u32 length + bytes, Pubkey = 32, u64 = 8, i64 = 8.
OracleSize(o) == 4 + NameBytes(o.name) + 32 + 8 + 8

RECURSIVE OraclesSize(_)
OraclesSize(os) ==
    IF os = <<>> THEN 0 ELSE OracleSize(Head(os)) + OraclesSize(Tail(os))

\* 8-byte discriminator + authority + Vec<Oracle> (u32 length + items).
SerializedSize(rd) == 8 + 32 + 4 + OraclesSize(rd.oracles)

\* ---------------------------------------------------------------- handlers
\* initialize: authority := signer, oracles := Vec::new().
initialize(rd, signer) == RateData(signer, <<>>)

HasPubkey(os, pubkey) == \E i \in DOMAIN os : os[i].pubkey = pubkey

\* add_oracle without the `any(|o| o.pubkey == oracle_pubkey)` test.
add_oracle_unchecked(rd, name, oracle_pubkey) ==
    [err |-> "Ok",
     rate_data |-> [rd EXCEPT !.oracles = Append(@, Oracle(name, oracle_pubkey))]]

\* add_oracle whose test compares the name together with the pubkey.
add_oracle_by_name(rd, name, oracle_pubkey) ==
    IF \E i \in DOMAIN rd.oracles :
          rd.oracles[i].pubkey = oracle_pubkey /\ rd.oracles[i].name = name
    THEN [err |-> "OracleAlreadyExists", rate_data |-> rd]
    ELSE [err |-> "Ok",
          rate_data |-> [rd EXCEPT !.oracles = Append(@, Oracle(name, oracle_pubkey))]]

\* add_oracle that inserts the new Oracle at the front of the list.
add_oracle_front(rd, name, oracle_pubkey) ==
    IF HasPubkey(rd.oracles, oracle_pubkey)
    THEN [err |-> "OracleAlreadyExists", rate_data |-> rd]
    ELSE [err |-> "Ok",
          rate_data |-> [rd EXCEPT !.oracles = <<Oracle(name, oracle_pubkey)>> \o @]]

\* add_oracle: reject a registered pubkey, else push a fresh Oracle.
add_oracle(rd, name, oracle_pubkey) ==
    IF HasPubkey(rd.oracles, oracle_pubkey)
    THEN [err |-> "OracleAlreadyExists", rate_data |-> rd]
    ELSE [err |-> "Ok",
          rate_data |-> [rd EXCEPT !.oracles = Append(@, Oracle(name, oracle_pubkey))]]

\* iter_mut().find(..): the first entry with the signer's pubkey, 0 if none.
FindOracle(os, pubkey) ==
    IF HasPubkey(os, pubkey)
    THEN CHOOSE i \in DOMAIN os :
            /\ os[i].pubkey = pubkey
            /\ \A j \in DOMAIN os : os[j].pubkey = pubkey => i <= j
    ELSE 0

\* update_rate that writes every entry once the signer is found.
update_rate_every(rd, oracle_signer, new_rate, unix_timestamp) ==
    IF FindOracle(rd.oracles, oracle_signer) # 0
    THEN [err |-> "Ok",
          rate_data |-> [rd EXCEPT !.oracles =
              [i \in DOMAIN @ |-> [@[i] EXCEPT !.rate = new_rate,
                                               !.last_updated = unix_timestamp]]]]
    ELSE [err |-> "UnauthorizedOracle", rate_data |-> rd]

\* update_rate that falls back to the first entry when the signer is unknown.
update_rate_fallback(rd, oracle_signer, new_rate, unix_timestamp) ==
    LET f == FindOracle(rd.oracles, oracle_signer)
        i == IF f = 0 /\ rd.oracles # <<>> THEN 1 ELSE f
    IN  IF i # 0
        THEN [err |-> "Ok",
              rate_data |-> [rd EXCEPT !.oracles[i].rate = new_rate,
                                       !.oracles[i].last_updated = unix_timestamp]]
        ELSE [err |-> "UnauthorizedOracle", rate_data |-> rd]

\* update_rate that writes the rate and leaves last_updated alone.
update_rate_rate_only(rd, oracle_signer, new_rate, unix_timestamp) ==
    LET i == FindOracle(rd.oracles, oracle_signer)
    IN  IF i # 0
        THEN [err |-> "Ok", rate_data |-> [rd EXCEPT !.oracles[i].rate = new_rate]]
        ELSE [err |-> "UnauthorizedOracle", rate_data |-> rd]

\* update_rate that stamps the entry with 0 instead of the clock.
update_rate_zero_stamp(rd, oracle_signer, new_rate, unix_timestamp) ==
    LET i == FindOracle(rd.oracles, oracle_signer)
    IN  IF i # 0
        THEN [err |-> "Ok",
              rate_data |-> [rd EXCEPT !.oracles[i].rate = new_rate,
                                       !.oracles[i].last_updated = 0]]
        ELSE [err |-> "UnauthorizedOracle", rate_data |-> rd]

\* update_rate that removes the signer's entry and pushes the updated one.
update_rate_reinserts(rd, oracle_signer, new_rate, unix_timestamp) ==
    LET i == FindOracle(rd.oracles, oracle_signer)
    IN  IF i # 0
        THEN [err |-> "Ok",
              rate_data |-> [rd EXCEPT !.oracles =
                  Append(SelectSeq(@, LAMBDA o : o.pubkey # oracle_signer),
                         [@[i] EXCEPT !.rate = new_rate,
                                      !.last_updated = unix_timestamp])]]
        ELSE [err |-> "UnauthorizedOracle", rate_data |-> rd]

\* update_rate: write rate and last_updated of the signer's own entry.
update_rate(rd, oracle_signer, new_rate, unix_timestamp) ==
    LET i == FindOracle(rd.oracles, oracle_signer)
    IN  IF i # 0
        THEN [err |-> "Ok",
              rate_data |-> [rd EXCEPT !.oracles[i].rate = new_rate,
                                       !.oracles[i].last_updated = unix_timestamp]]
        ELSE [err |-> "UnauthorizedOracle", rate_data |-> rd]

\* delegate_account CPI: the delegation program takes ownership of a PDA this
\* program owns, or returns an error (accepted is its answer to the request).
delegate_account(loc, accepted) ==
    IF loc = "BASE" /\ accepted
    THEN [err |-> "Ok", location |-> "DELEGATED"]
    ELSE [err |-> "AdapterFailure", location |-> loc]

\* undelegate_account CPI: ownership of a delegated PDA returns to this
\* program, or the delegation program answers with an error.
undelegate_account(loc, accepted) ==
    IF loc = "DELEGATED" /\ accepted
    THEN [err |-> "Ok", location |-> "BASE"]
    ELSE [err |-> "AdapterFailure", location |-> loc]

\* delegate that drops the CPI's result instead of propagating it.
delegate_swallows(rd, loc, accepted) ==
    LET r == delegate_account(loc, accepted)
    IN  Out("Ok", rd, r.location)

\* delegate: builds the CPI and propagates its result with `?`; no field of
\* rate_data is assigned.
delegate(rd, loc, accepted) ==
    LET r == delegate_account(loc, accepted)
    IN  Out(r.err, rd, r.location)

\* undelegate that re-creates the list as initialize does.
undelegate_resets(rd, loc, accepted) ==
    LET r == undelegate_account(loc, accepted)
    IN  Out(r.err, IF r.err = "Ok" THEN [rd EXCEPT !.oracles = <<>>] ELSE rd,
            r.location)

\* undelegate that hands back entries with rate and last_updated cleared.
undelegate_forgets_rates(rd, loc, accepted) ==
    LET r == undelegate_account(loc, accepted)
    IN  Out(r.err,
            IF r.err = "Ok"
            THEN [rd EXCEPT !.oracles =
                    [i \in DOMAIN @ |-> Oracle(@[i].name, @[i].pubkey)]]
            ELSE rd,
            r.location)

\* undelegate: same shape as delegate.
undelegate(rd, loc, accepted) ==
    LET r == undelegate_account(loc, accepted)
    IN  Out(r.err, rd, r.location)

\* ----------------------------------------------------- account validation
\* The PDA taken as an unchecked AccountInfo: its owner is not looked at.
AccountCheck_any_owner(venue, exists, loc) ==
    IF ~exists THEN "AccountNotInitialized" ELSE "Ok"

\* rate_data: Account<'info, RateData> with seeds = [b"rate_data"].  The base
\* ledger loads the PDA only while this program owns it; the ER executes
\* against the PDA only while it is delegated to it.
AccountCheck(venue, exists, loc) ==
    IF venue = "base"
    THEN IF ~exists THEN "AccountNotInitialized"
         ELSE IF loc # "BASE" THEN "AccountOwnedByWrongProgram"
         ELSE "Ok"
    ELSE IF loc # "DELEGATED" THEN "NotDelegated" ELSE "Ok"

\* has_one = authority: the signer is the stored authority.
has_one(rd, signer) == rd.authority = signer

\* Initialize with init_if_needed: an existing PDA is taken as it is.
Initialize_if_needed(venue, exists) ==
    IF venue # "base" THEN "NotDelegated" ELSE "Ok"

\* struct Initialize: `init` creates the PDA, which must not exist yet.
Initialize(venue, exists) ==
    IF exists THEN "AlreadyExists"
    ELSE IF venue # "base" THEN "NotDelegated"
    ELSE "Ok"

\* ManageOracle without has_one = authority.
ManageOracle_no_has_one(venue, exists, loc, rd, signer) ==
    AccountCheck(venue, exists, loc)

\* struct ManageOracle: the program's PDA, has_one = authority.
ManageOracle(venue, exists, loc, rd, signer) ==
    LET a == AccountCheck(venue, exists, loc)
    IN  IF a # "Ok" THEN a
        ELSE IF ~has_one(rd, signer) THEN "Unauthorized"
        ELSE "Ok"

\* struct UpdateRate: the program's PDA and any signer.
UpdateRate(venue, exists, loc) == AccountCheck(venue, exists, loc)

\* DelegateRateData without has_one = authority.
DelegateRateData_no_has_one(venue, exists, loc, rd, signer) ==
    AccountCheck(venue, exists, loc)

\* struct DelegateRateData: the program's PDA, has_one = authority.
DelegateRateData(venue, exists, loc, rd, signer) ==
    LET a == AccountCheck(venue, exists, loc)
    IN  IF a # "Ok" THEN a
        ELSE IF ~has_one(rd, signer) THEN "Unauthorized"
        ELSE "Ok"

\* struct UndelegateRateData: the program's PDA, has_one = authority.
UndelegateRateData(venue, exists, loc, rd, signer) ==
    LET a == AccountCheck(venue, exists, loc)
    IN  IF a # "Ok" THEN a
        ELSE IF ~has_one(rd, signer) THEN "Unauthorized"
        ELSE "Ok"

\* Write-back of a #[account(mut)] account when the handler returned Ok: the
\* content must serialize into the space reserved at creation.
Exit(out, pre) ==
    IF out.err = "Ok" /\ SerializedSize(out.rate_data) > Space
    THEN [err |-> "AccountDidNotSerialize", rate_data |-> pre]
    ELSE out

\* ------------------------------------------------------------ bookkeeping
Call(op, venue, signer, name, pubkey, new_rate, res) ==
    [op |-> op, venue |-> venue, signer |-> signer, name |-> name,
     pubkey |-> pubkey, new_rate |-> new_rate, res |-> res, now |-> clock,
     pre |-> rate_data, pre_loc |-> location, pre_created |-> created]

NoCall == [op |-> "none", venue |-> "base", signer |-> NoKey, name |-> "",
           pubkey |-> NoKey, new_rate |-> 0, res |-> "Ok", now |-> 0,
           pre |-> EmptyData, pre_loc |-> "BASE", pre_created |-> FALSE]

NoAdds == [pure |-> FALSE, calls |-> <<>>]

IdleUpd == [pc |-> "idle", signer |-> NoKey, new_rate |-> 0, now |-> 0,
            local |-> EmptyData, before |-> EmptyData, res |-> "none",
            loc_at_commit |-> "BASE"]

IdleDlg == [pc |-> "idle", signer |-> NoKey, accepted |-> FALSE, res |-> "none"]

NoLedger ==
    [registered |-> <<>>,
     reported |-> [k \in Keys |-> [rate |-> 0, last_updated |-> 0, any |-> FALSE]]]

\* ------------------------------------------------------------------ Init
Init ==
    /\ created = FALSE
    /\ rate_data = EmptyData
    /\ location = "BASE"
    /\ clock = 1
    /\ last = NoCall
    /\ pre_delegate = <<>>
    /\ adds = NoAdds
    /\ ledger = NoLedger
    /\ lock = "free"
    /\ upd = IdleUpd
    /\ dlg = IdleDlg

\* ---------------------------------------------------------- transactions
TxInitialize(venue, signer) ==
    LET v == Initialize(venue, created)
    IN  /\ created' = (created \/ v = "Ok")
        /\ rate_data' = IF v = "Ok" THEN initialize(rate_data, signer) ELSE rate_data
        /\ last' = Call("initialize", venue, signer, "", NoKey, 0, v)
        /\ adds' = IF v = "Ok" THEN [pure |-> TRUE, calls |-> <<>>] ELSE NoAdds
        /\ UNCHANGED <<location, clock, pre_delegate, ledger>>

TxAddOracle(venue, signer, name, oracle_pubkey) ==
    LET v   == ManageOracle(venue, created, location, rate_data, signer)
        out == IF v # "Ok" THEN [err |-> v, rate_data |-> rate_data]
               ELSE Exit(add_oracle(rate_data, name, oracle_pubkey), rate_data)
        inRun == /\ adds.pure
                 /\ venue = "base"
                 /\ signer = rate_data.authority
                 /\ \A i \in DOMAIN adds.calls : adds.calls[i].pubkey # oracle_pubkey
    IN  /\ rate_data' = out.rate_data
        /\ last' = Call("add_oracle", venue, signer, name, oracle_pubkey, 0, out.err)
        /\ pre_delegate' = IF out.err = "Ok" THEN <<>> ELSE pre_delegate
        /\ adds' = IF inRun
                   THEN [adds EXCEPT !.calls = Append(@,
                            [name |-> name, pubkey |-> oracle_pubkey,
                             ok |-> (out.err = "Ok")])]
                   ELSE NoAdds
        /\ ledger' = IF out.err = "Ok"
                     THEN [ledger EXCEPT !.registered = Append(@,
                              [name |-> name, pubkey |-> oracle_pubkey])]
                     ELSE ledger
        /\ UNCHANGED <<created, location, clock>>

TxUpdateRate(venue, signer, new_rate) ==
    LET v   == UpdateRate(venue, created, location)
        out == IF v # "Ok" THEN [err |-> v, rate_data |-> rate_data]
               ELSE Exit(update_rate(rate_data, signer, new_rate, clock), rate_data)
    IN  /\ rate_data' = out.rate_data
        /\ last' = Call("update_rate", venue, signer, "", NoKey, new_rate, out.err)
        /\ pre_delegate' = IF out.err = "Ok" THEN <<>> ELSE pre_delegate
        /\ adds' = NoAdds
        /\ ledger' = IF out.err = "Ok"
                     THEN [ledger EXCEPT !.reported[signer] =
                              [rate |-> new_rate, last_updated |-> clock, any |-> TRUE]]
                     ELSE ledger
        /\ UNCHANGED <<created, location, clock>>

TxDelegate(venue, signer, accepted) ==
    LET v   == DelegateRateData(venue, created, location, rate_data, signer)
        out == IF v # "Ok" THEN Out(v, rate_data, location)
               ELSE delegate(rate_data, location, accepted)
    IN  /\ rate_data' = out.rate_data
        /\ location' = out.location
        /\ last' = Call("delegate", venue, signer, "", NoKey, 0, out.err)
        /\ pre_delegate' = IF out.err = "Ok" THEN <<rate_data>> ELSE pre_delegate
        /\ adds' = NoAdds
        /\ UNCHANGED <<created, clock, ledger>>

TxUndelegate(venue, signer, accepted) ==
    LET v   == UndelegateRateData(venue, created, location, rate_data, signer)
        out == IF v # "Ok" THEN Out(v, rate_data, location)
               ELSE undelegate(rate_data, location, accepted)
    IN  /\ rate_data' = out.rate_data
        /\ location' = out.location
        /\ last' = Call("undelegate", venue, signer, "", NoKey, 0, out.err)
        /\ adds' = NoAdds
        /\ UNCHANGED <<created, clock, pre_delegate, ledger>>

\* The Clock sysvar advances between transactions and never goes back.
Tick ==
    /\ clock < MaxClock
    /\ clock' = clock + 1
    /\ last' = NoCall
    /\ UNCHANGED <<created, rate_data, location, pre_delegate, adds, ledger>>

Next ==
    \/ \E venue \in Venues, signer \in Keys :
          TxInitialize(venue, signer) /\ UNCHANGED inflight
    \/ \E venue \in Venues, signer \in Keys, reg \in Registrations :
          TxAddOracle(venue, signer, reg[1], reg[2]) /\ UNCHANGED inflight
    \/ \E venue \in Venues, signer \in Keys, r \in Rates :
          TxUpdateRate(venue, signer, r) /\ UNCHANGED inflight
    \/ \E venue \in Venues, signer \in Keys, accepted \in BOOLEAN :
          TxDelegate(venue, signer, accepted) /\ UNCHANGED inflight
    \/ \E venue \in Venues, signer \in Keys, accepted \in BOOLEAN :
          TxUndelegate(venue, signer, accepted) /\ UNCHANGED inflight
    \/ Tick /\ UNCHANGED inflight

Spec == Init /\ [][Next]_vars

TypeOK ==
    /\ created \in BOOLEAN
    /\ location \in {"BASE", "DELEGATED"}
    /\ clock \in 1..MaxClock
    /\ rate_data.authority \in Keys \cup {NoKey}
    /\ Len(pre_delegate) <= 1

\* ------------------------------------------------------- claim vocabulary
Registered(os, pubkey) == \E i \in DOMAIN os : os[i].pubkey = pubkey

\* The transaction of the last step left the account, its owner and its
\* existence as they were.
Untouched ==
    /\ rate_data = last.pre
    /\ location = last.pre_loc
    /\ created = last.pre_created

\* The venue the last call was sent to held write authority over the record.
Admitted ==
    \/ last.venue = "base" /\ last.pre_created /\ last.pre_loc = "BASE"
    \/ last.venue = "er" /\ last.pre_loc = "DELEGATED"

\* C1: in every reachable state no two entries of oracles have the same
\* credential (pubkey).
C1_NoDuplicateCredentials ==
    \A i, j \in DOMAIN rate_data.oracles :
        i # j => rate_data.oracles[i].pubkey # rate_data.oracles[j].pubkey

\* C1 witness: two oracles are registered and a further add_oracle with a
\* registered credential has just been refused.
C1_Witness ==
    /\ Len(rate_data.oracles) = 2
    /\ last.op = "add_oracle"
    /\ last.res = "OracleAlreadyExists"

\* C2: a successful update_rate(v) is signed by a registered credential and
\* changes only that credential's entry, setting rate = v and last_updated =
\* the timestamp read in the call; the other entries, the order and length of
\* oracles and the authority stay as they were.  At the venue holding write
\* authority an update_rate by a registered credential succeeds.
C2_UpdateRateFrame ==
    last.op = "update_rate" =>
        /\ last.res = "Ok" =>
              /\ \E i \in DOMAIN last.pre.oracles :
                    /\ last.pre.oracles[i].pubkey = last.signer
                    /\ rate_data.oracles =
                          [last.pre.oracles EXCEPT
                              ![i] = [name |-> last.pre.oracles[i].name,
                                      pubkey |-> last.pre.oracles[i].pubkey,
                                      rate |-> last.new_rate,
                                      last_updated |-> last.now]]
              /\ rate_data.authority = last.pre.authority
              /\ location = last.pre_loc
        /\ (Admitted /\ Registered(last.pre.oracles, last.signer)) => last.res = "Ok"

\* C2 witness: initialize, add_oracle(BankA, K1), add_oracle(MarketB, K2),
\* update_rate(1450) by K1 gives [{BankA,K1,1450,t1},{MarketB,K2,0,0}].
C2_Witness ==
    /\ last.op = "update_rate" /\ last.res = "Ok" /\ last.signer = "K1"
    /\ rate_data.oracles =
          << [name |-> "BankA", pubkey |-> "K1", rate |-> 1450, last_updated |-> last.now],
             [name |-> "MarketB", pubkey |-> "K2", rate |-> 0, last_updated |-> 0] >>

\* C3: update_rate signed by a credential that matches no entry fails and
\* leaves the whole record unchanged; at the venue holding write authority the
\* failure is UnauthorizedOracle.
C3_UnregisteredUpdateRejected ==
    (last.op = "update_rate" /\ ~Registered(last.pre.oracles, last.signer)) =>
        /\ last.res # "Ok"
        /\ Untouched
        /\ Admitted => last.res = "UnauthorizedOracle"

\* C3 witness: an unregistered signer was refused while an oracle with a
\* reported rate is registered.
C3_Witness ==
    /\ last.op = "update_rate"
    /\ last.res = "UnauthorizedOracle"
    /\ \E i \in DOMAIN rate_data.oracles : rate_data.oracles[i].rate = 1450

\* C4: add_oracle by a signer other than the stored authority fails and
\* leaves the record unchanged whatever name and credential are supplied; at
\* the venue holding write authority the failure is Unauthorized.
C4_NonAdminAddRejected ==
    (last.op = "add_oracle" /\ last.signer # last.pre.authority) =>
        /\ last.res # "Ok"
        /\ Untouched
        /\ Admitted => last.res = "Unauthorized"

\* C4 witness: a non-administrator asked to add a credential that is not
\* registered and was refused with Unauthorized.
C4_Witness ==
    /\ last.op = "add_oracle"
    /\ last.res = "Unauthorized"
    /\ last.pre_created
    /\ ~Registered(rate_data.oracles, last.pubkey)

\* C5: add_oracle by the authority with a registered credential fails and
\* leaves oracles unchanged in length and content, also when the supplied
\* name differs from the registered one; at the venue holding write authority
\* the failure is OracleAlreadyExists.
C5_DuplicateAddRejected ==
    (/\ last.op = "add_oracle"
     /\ last.signer = last.pre.authority
     /\ Registered(last.pre.oracles, last.pubkey)) =>
        /\ last.res # "Ok"
        /\ Untouched
        /\ Admitted => last.res = "OracleAlreadyExists"

\* C5 witness: the refused call supplied a name other than the registered one.
C5_Witness ==
    /\ last.op = "add_oracle"
    /\ last.res = "OracleAlreadyExists"
    /\ \E i \in DOMAIN rate_data.oracles :
          /\ rate_data.oracles[i].pubkey = last.pubkey
          /\ rate_data.oracles[i].name # last.name

\* The entries a run of add_oracle calls registers, in call order.
CallOk(c) == c.ok

Entries(calls) ==
    [i \in 1..Len(calls) |-> Oracle(calls[i].name, calls[i].pubkey)]

\* C6 as stated: after initialize, in a run of add_oracle calls by the
\* authority with pairwise distinct credentials every call succeeds and
\* oracles holds exactly one entry per call, in call order, each with rate 0
\* and last_updated 0.
C6_EveryAddSucceeds ==
    adds.pure =>
        /\ \A i \in DOMAIN adds.calls : adds.calls[i].ok
        /\ rate_data.oracles = Entries(adds.calls)

\* C6 amended: in such a run a call succeeds exactly when the record with the
\* new entry still fits the space reserved at creation; a call that does not
\* fit fails and changes nothing; oracles holds exactly one entry per
\* successful call, in call order, each with rate 0 and last_updated 0.
C6_AddsWithinSpace ==
    adds.pure =>
        /\ rate_data.oracles = Entries(SelectSeq(adds.calls, CallOk))
        /\ (last.op = "add_oracle" /\ adds.calls # <<>>) =>
              LET c == adds.calls[Len(adds.calls)]
                  grown == [last.pre EXCEPT
                               !.oracles = Append(@, Oracle(c.name, c.pubkey))]
              IN  /\ c.ok <=> SerializedSize(grown) <= Space
                  /\ c.ok <=> last.res = "Ok"
                  /\ ~c.ok => Untouched

\* C6 witness: a run of three add_oracle calls with distinct credentials, of
\* which the first two were accepted.
C6_Witness ==
    /\ adds.pure
    /\ Len(adds.calls) = 3
    /\ Len(rate_data.oracles) = 2
    /\ adds.calls[2].ok

\* The venue that holds write authority at an authority location.
Holder(loc) == IF loc = "BASE" THEN "base" ELSE "er"

\* C7: the two venues never both accept a record-mutating operation: an
\* add_oracle or update_rate is accepted only by the venue that holds write
\* authority, so the base venue rejects them while the location is DELEGATED
\* and the secondary venue rejects them while it is BASE.
C7_SingleWriter ==
    /\ location \in {"BASE", "DELEGATED"}
    /\ (last.op \in {"add_oracle", "update_rate"} /\ last.res = "Ok") =>
          last.venue = Holder(last.pre_loc)
    /\ (last.op \in {"add_oracle", "update_rate"} /\ last.venue # Holder(last.pre_loc)) =>
          Untouched

\* C7 witness: while DELEGATED the base venue refused an update_rate signed
\* by a registered oracle.
C7_Witness ==
    /\ last.op = "update_rate"
    /\ last.venue = "base"
    /\ last.pre_loc = "DELEGATED"
    /\ Registered(rate_data.oracles, last.signer)
    /\ last.res # "Ok"

\* C8 as stated: a delegate by the authority while the location is DELEGATED
\* fails with InvalidStateTransition and leaves location and record unchanged.
C8_SecondDelegateInvalidStateTransition ==
    (/\ last.op = "delegate"
     /\ last.pre_loc = "DELEGATED"
     /\ last.signer = last.pre.authority) =>
        /\ last.res = "InvalidStateTransition"
        /\ location = "DELEGATED"
        /\ rate_data = last.pre

\* C9 as stated: an undelegate by the authority at the base venue while the
\* location is BASE fails with InvalidStateTransition and leaves location and
\* record unchanged.
C9_UndelegateAtBaseInvalidStateTransition ==
    (/\ last.op = "undelegate"
     /\ last.venue = "base"
     /\ last.pre_created
     /\ last.pre_loc = "BASE"
     /\ last.signer = last.pre.authority) =>
        /\ last.res = "InvalidStateTransition"
        /\ location = "BASE"
        /\ rate_data = last.pre

\* C10: a successful delegate followed by a successful undelegate with no
\* add_oracle or update_rate accepted in between leaves authority and oracles
\* as they were before the delegate and the location at BASE; neither
\* delegate nor undelegate rewrites the record.
C10_RoundTrip ==
    /\ (last.op = "undelegate" /\ last.res = "Ok" /\ pre_delegate # <<>>) =>
          /\ rate_data = pre_delegate[1]
          /\ location = "BASE"
    /\ (last.op = "delegate" /\ last.res = "Ok") =>
          /\ rate_data = last.pre
          /\ location = "DELEGATED"
    /\ last.op \in {"delegate", "undelegate"} => rate_data = last.pre

\* C10 witness: the round trip of a record with two oracles, one of which has
\* reported a rate.
C10_Witness ==
    /\ last.op = "undelegate" /\ last.res = "Ok"
    /\ pre_delegate # <<>>
    /\ Len(rate_data.oracles) = 2
    /\ \E i \in DOMAIN rate_data.oracles : rate_data.oracles[i].rate = 1450

\* What the accepted calls add up to: one entry per accepted add_oracle, in
\* call order, carrying the last rate and timestamp its credential reported.
Render(l) ==
    [i \in 1..Len(l.registered) |->
        [name |-> l.registered[i].name,
         pubkey |-> l.registered[i].pubkey,
         rate |-> l.reported[l.registered[i].pubkey].rate,
         last_updated |-> l.reported[l.registered[i].pubkey].last_updated]]

\* C11: a migration neither loses nor duplicates entries or rates: the record
\* always holds every accepted add_oracle exactly once and for each entry the
\* last accepted update_rate, and a successful undelegate hands back to the
\* base venue exactly the content accumulated before it, with the location
\* at BASE.
C11_MigrationKeepsContent ==
    /\ rate_data.oracles = Render(ledger)
    /\ (last.op = "undelegate" /\ last.res = "Ok") =>
          /\ rate_data = last.pre
          /\ location = "BASE"
          /\ last.pre_loc = "DELEGATED"

\* C11 witness: a successful undelegate after add_oracle or update_rate was
\* accepted while the record was delegated; it hands back two oracles, one
\* with a reported rate.
C11_Witness ==
    /\ last.op = "undelegate" /\ last.res = "Ok"
    /\ pre_delegate = <<>>
    /\ Len(rate_data.oracles) = 2
    /\ \E i \in DOMAIN rate_data.oracles : rate_data.oracles[i].rate = 1450

\* C12: the authority is set exactly once, by the successful initialize, to
\* the signer of that call; no later transaction, failed or not, changes it.
C12_AuthoritySetOnce ==
    /\ ~created => rate_data.authority = NoKey
    /\ created => rate_data.authority \in Keys
    /\ (last.op = "initialize" /\ last.res = "Ok") =>
          /\ ~last.pre_created
          /\ rate_data.authority = last.signer
    /\ last.pre_created => rate_data.authority = last.pre.authority

\* C12 witness: a later initialize signed by somebody else has been refused
\* and the authority is still the first signer.
C12_Witness ==
    /\ last.op = "initialize"
    /\ last.pre_created
    /\ last.signer # rate_data.authority
    /\ rate_data.authority = last.pre.authority

\* C13: initialize succeeds only when no record exists; on an existing
\* record it fails with AlreadyExists whoever signs and leaves the record
\* untouched (authority kept, oracles not emptied); a record once created is
\* never deleted.
C13_InitializeOnce ==
    /\ (last.op = "initialize" /\ last.pre_created) =>
          /\ last.res = "AlreadyExists"
          /\ Untouched
    /\ (last.op = "initialize" /\ last.res = "Ok") => ~last.pre_created /\ created
    /\ last.pre_created => created

\* C13 witness: initialize was refused on a record that holds two oracles.
C13_Witness ==
    /\ last.op = "initialize"
    /\ last.res = "AlreadyExists"
    /\ Len(rate_data.oracles) = 2

\* C14 as stated: an add_oracle by the authority with a new credential, at
\* the venue holding write authority, that finds the record at its capacity
\* fails with CapacityExceeded and leaves the record unchanged.
C14_CapacityExceeded ==
    (/\ last.op = "add_oracle"
     /\ Admitted
     /\ last.signer = last.pre.authority
     /\ ~Registered(last.pre.oracles, last.pubkey)
     /\ SerializedSize([last.pre EXCEPT
            !.oracles = Append(@, Oracle(last.name, last.pubkey))]) > Space) =>
        /\ last.res = "CapacityExceeded"
        /\ Untouched

\* C15: a migration the delegation program rejects or cannot complete is
\* reported as failed and leaves no partial state: a failed delegate leaves
\* the location BASE, a failed undelegate leaves it DELEGATED, the record is
\* unchanged in both; Ok is reported only when the location has moved.
C15_AdapterFailureAtomic ==
    /\ (last.op \in {"delegate", "undelegate"} /\ last.res # "Ok") => Untouched
    /\ (last.op = "delegate" /\ last.res = "Ok") =>
          last.pre_loc = "BASE" /\ location = "DELEGATED"
    /\ (last.op = "undelegate" /\ last.res = "Ok") =>
          last.pre_loc = "DELEGATED" /\ location = "BASE"

\* C15 witness: the delegation program refused an undelegate the authority
\* sent for a delegated record that holds a reported rate.
C15_Witness ==
    /\ last.op = "undelegate"
    /\ last.res = "AdapterFailure"
    /\ last.signer = rate_data.authority
    /\ location = "DELEGATED"
    /\ \E i \in DOMAIN rate_data.oracles : rate_data.oracles[i].rate = 1450

\* C16: delegate and undelegate signed by anybody but the stored authority,
\* a registered oracle included, fail without reaching the delegation
\* program and leave location and record unchanged; at the venue holding
\* write authority the failure is Unauthorized.
C16_MigrationNeedsAuthority ==
    (last.op \in {"delegate", "undelegate"} /\ last.signer # last.pre.authority) =>
        /\ last.res \notin {"Ok", "AdapterFailure"}
        /\ Untouched
        /\ Admitted => last.res = "Unauthorized"

\* C16 witness: a registered oracle that is not the authority asked for a
\* delegate and was refused with Unauthorized.
C16_Witness ==
    /\ last.op = "delegate"
    /\ last.res = "Unauthorized"
    /\ Registered(rate_data.oracles, last.signer)

\* C18: an entry's rate or last_updated differs across a step only when the
\* step is a successful update_rate signed by that entry's own credential,
\* and that step writes both fields; entries are created with both at 0.
C18_OwnCredentialOnly ==
    /\ \A i \in DOMAIN last.pre.oracles :
          /\ i \in DOMAIN rate_data.oracles
          /\ (\/ rate_data.oracles[i].rate # last.pre.oracles[i].rate
              \/ rate_data.oracles[i].last_updated # last.pre.oracles[i].last_updated) =>
                /\ last.op = "update_rate" /\ last.res = "Ok"
                /\ last.signer = last.pre.oracles[i].pubkey
    /\ (last.op = "update_rate" /\ last.res = "Ok") =>
          \E i \in DOMAIN rate_data.oracles :
              /\ rate_data.oracles[i].pubkey = last.signer
              /\ rate_data.oracles[i].rate = last.new_rate
              /\ rate_data.oracles[i].last_updated = last.now
    /\ \A i \in DOMAIN rate_data.oracles :
          (last.op # "none" /\ i > Len(last.pre.oracles)) =>
              rate_data.oracles[i].rate = 0 /\ rate_data.oracles[i].last_updated = 0

\* C18 witness: an oracle's second report moved its own timestamp while the
\* other oracle's reported rate and timestamp stayed.
C18_Witness ==
    /\ last.op = "update_rate" /\ last.res = "Ok"
    /\ Len(rate_data.oracles) = 2
    /\ \E i, j \in DOMAIN rate_data.oracles :
          /\ i # j
          /\ rate_data.oracles[i].pubkey = last.signer
          /\ last.pre.oracles[i].last_updated = 1
          /\ rate_data.oracles[i].last_updated = 2
          /\ rate_data.oracles[j].rate = 1450
          /\ rate_data.oracles[j] = last.pre.oracles[j]

\* C19: the list is append-only and never reordered: across every step its
\* length does not decrease and every entry keeps its index, name and
\* pubkey; a successful add_oracle adds exactly one entry, at the end, and
\* no other transaction changes the length.
C19_AppendOnly ==
    /\ Len(rate_data.oracles) >= Len(last.pre.oracles)
    /\ \A i \in DOMAIN last.pre.oracles :
          /\ rate_data.oracles[i].name = last.pre.oracles[i].name
          /\ rate_data.oracles[i].pubkey = last.pre.oracles[i].pubkey
    /\ (last.op = "add_oracle" /\ last.res = "Ok") =>
          /\ Len(rate_data.oracles) = Len(last.pre.oracles) + 1
          /\ rate_data.oracles[Len(rate_data.oracles)] = Oracle(last.name, last.pubkey)
    /\ (last.op # "none" /\ ~(last.op = "add_oracle" /\ last.res = "Ok")) =>
          Len(rate_data.oracles) = Len(last.pre.oracles)

\* C19 witness: a second oracle was appended behind one that has reported.
C19_Witness ==
    /\ last.op = "add_oracle" /\ last.res = "Ok"
    /\ Len(rate_data.oracles) = 2
    /\ rate_data.oracles[1].rate = 1450

\* C20: with a clock that never goes back, no entry's last_updated ever
\* decreases, across venues too, and it is 0 exactly as long as no
\* update_rate of that entry's credential has been accepted.
C20_LastUpdatedMonotonic ==
    /\ \A i \in DOMAIN last.pre.oracles :
          rate_data.oracles[i].last_updated >= last.pre.oracles[i].last_updated
    /\ \A i \in DOMAIN rate_data.oracles :
          /\ rate_data.oracles[i].last_updated <= clock
          /\ rate_data.oracles[i].last_updated = 0
                <=> ~ledger.reported[rate_data.oracles[i].pubkey].any

\* C20 witness: an entry stamped 1 at the base venue is stamped 2 by an
\* update_rate accepted at the secondary venue.
C20_Witness ==
    /\ last.op = "update_rate" /\ last.res = "Ok" /\ last.venue = "er"
    /\ \E i \in DOMAIN rate_data.oracles :
          /\ last.pre.oracles[i].last_updated = 1
          /\ rate_data.oracles[i].last_updated = 2

\* ------------------------------------------ transactions taken step by step
\* SpecRace: an update_rate and a delegate sent to the base venue at about
\* the same time, each taken through its steps: account validation and load,
\* the handler's statements, the write-back.

\* A runtime that schedules transactions without looking at their writable
\* accounts.
WriteLock_none(l) == TRUE

\* #[account(mut)] rate_data: the transaction names the PDA writable, and the
\* runtime runs it only while no other transaction holds the PDA.
WriteLock(l) == l = "free"

\* oracle.rate = new_rate;
write_rate(rd, i, new_rate) == [rd EXCEPT !.oracles[i].rate = new_rate]

\* oracle.last_updated = clock.unix_timestamp;
write_last_updated(rd, i, unix_timestamp) ==
    [rd EXCEPT !.oracles[i].last_updated = unix_timestamp]

\* Records the program reaches by initialize and add_oracle.
RaceRecords ==
    { RateData("K1", <<Oracle("MarketB", "K2")>>),
      RateData("K1", <<Oracle("MarketB", "K2"), Oracle("BankA", "K3")>>),
      RateData("K1", <<Oracle("MarketB", "K1"), Oracle("MarketB", "K2")>>) }

InitRace ==
    /\ created = TRUE
    /\ rate_data \in RaceRecords
    /\ location = "BASE"
    /\ clock = 1
    /\ last = NoCall
    /\ pre_delegate = <<>>
    /\ adds = NoAdds
    /\ ledger = NoLedger
    /\ lock = "free"
    /\ upd = IdleUpd
    /\ dlg = IdleDlg

spec_only == <<last, pre_delegate, adds, ledger>>

\* update_rate: scheduled, accounts validated, the PDA deserialized, the
\* clock read.
UpdBegin(signer, new_rate) ==
    /\ upd.pc = "idle"
    /\ WriteLock(lock)
    /\ LET v == UpdateRate("base", created, location)
       IN  IF v # "Ok"
           THEN /\ upd' = [IdleUpd EXCEPT !.pc = "done", !.signer = signer,
                                          !.new_rate = new_rate, !.now = clock,
                                          !.before = rate_data, !.res = v,
                                          !.loc_at_commit = location]
                /\ UNCHANGED lock
           ELSE /\ upd' = [IdleUpd EXCEPT !.pc = "loaded", !.signer = signer,
                                          !.new_rate = new_rate, !.now = clock,
                                          !.local = rate_data,
                                          !.before = rate_data, !.res = "pending"]
                /\ lock' = "update"
    /\ UNCHANGED <<created, rate_data, location, clock, dlg, spec_only>>

\* update_rate: find the signer's entry and write its rate, or fail.
UpdRate ==
    /\ upd.pc = "loaded"
    /\ LET i == FindOracle(upd.local.oracles, upd.signer)
       IN  IF i = 0
           THEN /\ upd' = [upd EXCEPT !.pc = "done", !.res = "UnauthorizedOracle",
                                      !.loc_at_commit = location]
                /\ lock' = "free"
           ELSE /\ upd' = [upd EXCEPT !.pc = "rate_written",
                                      !.local = write_rate(@, i, upd.new_rate)]
                /\ UNCHANGED lock
    /\ UNCHANGED <<created, rate_data, location, clock, dlg, spec_only>>

\* update_rate: write last_updated of the same entry.
UpdStamp ==
    /\ upd.pc = "rate_written"
    /\ upd' = [upd EXCEPT !.pc = "stamped",
                          !.local = write_last_updated(@,
                                       FindOracle(upd.local.oracles, upd.signer),
                                       upd.now)]
    /\ UNCHANGED <<created, rate_data, location, clock, lock, dlg, spec_only>>

\* update_rate: the handler returned Ok, the PDA is written back.
UpdCommit ==
    /\ upd.pc = "stamped"
    /\ LET out == Exit([err |-> "Ok", rate_data |-> upd.local], rate_data)
       IN  /\ rate_data' = out.rate_data
           /\ upd' = [upd EXCEPT !.pc = "done", !.res = out.err,
                                 !.loc_at_commit = location]
    /\ lock' = "free"
    /\ UNCHANGED <<created, location, clock, dlg, spec_only>>

\* The client sends its next update_rate.
UpdNext ==
    /\ upd.pc = "done"
    /\ upd' = IdleUpd
    /\ UNCHANGED <<created, rate_data, location, clock, lock, dlg, spec_only>>

\* delegate: scheduled and accounts validated.
DlgBegin(signer, accepted) ==
    /\ dlg.pc = "idle"
    /\ WriteLock(lock)
    /\ LET v == DelegateRateData("base", created, location, rate_data, signer)
       IN  IF v # "Ok"
           THEN /\ dlg' = [pc |-> "done", signer |-> signer,
                           accepted |-> accepted, res |-> v]
                /\ UNCHANGED lock
           ELSE /\ dlg' = [pc |-> "cpi", signer |-> signer,
                           accepted |-> accepted, res |-> "pending"]
                /\ lock' = "delegate"
    /\ UNCHANGED <<created, rate_data, location, clock, upd, spec_only>>

\* delegate: the CPI to the delegation program, the commit of the migration.
DlgCommit ==
    /\ dlg.pc = "cpi"
    /\ LET out == delegate(rate_data, location, dlg.accepted)
       IN  /\ rate_data' = out.rate_data
           /\ location' = out.location
           /\ dlg' = [dlg EXCEPT !.pc = "done", !.res = out.err]
    /\ lock' = "free"
    /\ UNCHANGED <<created, clock, upd, spec_only>>

\* The authority tries again after a refused delegate.
DlgNext ==
    /\ dlg.pc = "done"
    /\ dlg.res # "Ok"
    /\ dlg' = IdleDlg
    /\ UNCHANGED <<created, rate_data, location, clock, lock, upd, spec_only>>

NextRace ==
    \/ \E signer \in Keys, r \in Rates : UpdBegin(signer, r)
    \/ UpdRate
    \/ UpdStamp
    \/ UpdCommit
    \/ UpdNext
    \/ \E signer \in Keys, accepted \in BOOLEAN : DlgBegin(signer, accepted)
    \/ DlgCommit
    \/ DlgNext
    \/ Tick /\ UNCHANGED inflight

SpecRace == InitRace /\ [][NextRace]_vars

====
